---- MODULE Spec2Model ----
(***************************************************************************)
(* StockfishWrapper (src/src/engine/stockfish_wrapper.py): one adapter     *)
(* instance, the engine subprocesses it spawns, and the asyncio tasks that *)
(* call start, stop, analyze_position, is_ready and new_game on it.        *)
(*                                                                         *)
(* Granularity: one action is the code a task runs between two suspension  *)
(* points of the event loop.  The suspension points are the awaits of the  *)
(* source: Lock.acquire when the lock is taken, writer.drain() after every *)
(* command, reader.readline() when no line is buffered, process.wait() and *)
(* create_subprocess_exec.                                                 *)
(***************************************************************************)
EXTENDS Integers, Sequences, FiniteSets, TLC

\* ---- bounds of the model
NumTasks == 2
MaxCalls == 3
MaxSpawn == 2
MaxLines == 2      \* info lines handed to one run of _parse_analysis

\* ---- program constants
None == 0
ConfigMultiPV == 10
MateScore == 10000

Tasks == 1..NumTasks

\* StockfishConfig with its default switches
Config == [multipv |-> ConfigMultiPV, use_nnue |-> TRUE, skill_level |-> 20]

\* StockfishConfig.to_uci_options: the option names, in the order sent
to_uci_options(cfg) ==
    <<"Hash", "Threads", "MultiPV", "UCI_AnalyseMode">>
        \o (IF cfg.use_nnue THEN <<"Use NNUE">> ELSE <<>>)
        \o (IF cfg.skill_level < 20 THEN <<"Skill Level">> ELSE <<>>)

\* The values a caller passes as num_moves: None, the configured width, another
NumMovesInputs == {None, ConfigMultiPV, 3}

Operations == {"start", "stop", "analyze_position", "is_ready", "new_game"}

VARIABLES
    process,      \* self._process : None or the process spawned last
    reader,       \* self._reader  : None or the process whose stdout it is
    writer,       \* self._writer  : None or the process whose stdin it is
    is_ready,     \* self._is_ready
    lock,         \* self._lock    : None, or the task inside "async with"
    waiters,      \* self._lock._waiters, in arrival order
    procs,        \* the subprocesses spawned so far
    task,         \* per task: the call it runs and where that call stands
    lastMultiPV,  \* value of the last "setoption name MultiPV" written
    ncalls,       \* calls made so far (a call's number names its search)
    nstarts,      \* start() calls made so far
    parse,        \* one run of _parse_analysis: its inputs, locals and result
    go,           \* one go command: the budget arguments and the command built
    wdl           \* one run of _estimate_wdl: its argument and its result

vars == <<process, reader, writer, is_ready, lock, waiters, procs, task,
          lastMultiPV, ncalls, nstarts, parse, go, wdl>>

\* What the adapter's calls leave alone: the runs of its pure functions
pure == <<parse, go, wdl>>

handles == <<process, reader, writer, is_ready>>

\* ---- protocol vocabulary

\* A command written to the engine's stdin
Cmd(c, n, a) == [cmd |-> c, name |-> n, arg |-> a]

\* The commands the engine answers on stdout; the others change its state only
Answered == {"uci", "isready", "go", "quit"}

\* A line on the engine's stdout; search is the call whose go produced it
Line(k, s) == [kind |-> k, search |-> s]

\* What a UCI engine prints for a command
Response(c) ==
    CASE c.cmd = "uci"     -> <<Line("id", 0), Line("uciok", 0)>>
      [] c.cmd = "isready" -> <<Line("readyok", 0)>>
      [] c.cmd = "go"      -> <<Line("info", c.arg), Line("bestmove", c.arg)>>
      [] OTHER             -> <<>>

\* A subprocess as the adapter's pipes see it
NewProc == [alive |-> TRUE, wedged |-> FALSE, inq |-> <<>>, out |-> <<>>]

\* The stdout stream of p is at end of file: process gone, buffer drained
AtEOF(p) == ~procs[p].alive /\ procs[p].out = <<>>

\* ---- tasks

IdleTask ==
    [pc |-> "idle", op |-> "none", res |-> "none", num_moves |-> None,
     rd |-> None, waitp |-> None, optIdx |-> 0, call |-> 0, got |-> {},
     nwritten |-> 0, spawned |-> None, uciokFrom |-> None, sent |-> <<>>]

Entry(o) ==
    CASE o = "start"            -> "st_enter"
      [] o = "stop"             -> "sp_enter"
      [] o = "analyze_position" -> "an_enter"
      [] o = "is_ready"         -> "ir_enter"
      [] o = "new_game"         -> "ng_enter"

\* A loop that reads a closed stream never suspends (readline returns b"" at
\* once), so the event loop runs nothing else from then on
LoopBlocked == \E t \in Tasks : task[t].pc = "spin"

TypeOK ==
    /\ process \in 0..MaxSpawn /\ reader \in 0..MaxSpawn /\ writer \in 0..MaxSpawn
    /\ is_ready \in BOOLEAN
    /\ lock \in {None} \cup Tasks
    /\ Len(procs) <= MaxSpawn
    /\ ncalls \in 0..MaxCalls

\* No run of _parse_analysis, no go command under way
NoParse ==
    [pc |-> "idle", lines |-> <<>>, candidates |-> <<>>,
     total_nodes |-> 0, time_ms |-> 0, nps |-> 0, max_depth |-> 0,
     max_seldepth |-> 0, result |-> <<>>]

NoWdl == [pc |-> "idle", score_cp |-> 0, result |-> <<>>]

NoGo == [pc |-> "idle", depth |-> {}, time_ms |-> {}, nodes |-> {}, go_cmd |-> <<>>]

\* The adapter as __init__ leaves it
Constructed ==
    /\ process = None /\ reader = None /\ writer = None
    /\ is_ready = FALSE
    /\ lock = None /\ waiters = <<>>
    /\ procs = <<>>
    /\ task = [t \in Tasks |-> IdleTask]
    /\ lastMultiPV = None
    /\ ncalls = 0 /\ nstarts = 0

Init == Constructed /\ parse = NoParse /\ go = NoGo /\ wdl = NoWdl

\* A task calls an operation of the adapter
Call(t, o, nm) ==
    /\ ~LoopBlocked
    /\ task[t].pc \in {"idle", "done"}
    /\ ncalls < MaxCalls
    /\ o = "start" => nstarts < MaxSpawn
    /\ nm # None => o = "analyze_position"
    /\ ncalls' = ncalls + 1
    /\ nstarts' = IF o = "start" THEN nstarts + 1 ELSE nstarts
    /\ task' = [task EXCEPT ![t] =
                   [IdleTask EXCEPT !.pc = Entry(o), !.op = o,
                                    !.num_moves = nm, !.call = ncalls + 1]]
    /\ UNCHANGED <<handles, lock, waiters, procs, lastMultiPV, pure>>

\* ---- how a call ends, and how a command is written

\* Lock.release as "async with" runs it when task t leaves the block
release(h, t) == IF h = t THEN None ELSE h

\* What is left of a call that has ended: the operation, how it ended and the
\* origins of the lines it handed to the parser
Finished(tk, r) == [IdleTask EXCEPT !.pc = "done", !.op = tk.op, !.res = r, !.got = tk.got]

\* An exception that leaves the block without releasing the lock: what C4
\* rules out
RaiseHoldingLock(t, h, tk, ps) ==
    /\ task' = [task EXCEPT ![t] = Finished(tk, "raised")]
    /\ lock' = h
    /\ procs' = ps
    /\ UNCHANGED lastMultiPV

\* The call of task t ends with an exception.  h is the lock's holder, tk the
\* task's record and ps the subprocesses at that point of the step
Raise(t, h, tk, ps) ==
    /\ task' = [task EXCEPT ![t] = Finished(tk, "raised")]
    /\ lock' = release(h, t)
    /\ procs' = ps
    /\ UNCHANGED lastMultiPV

\* The call of task t returns r
Return(t, h, tk, ps, r) ==
    /\ task' = [task EXCEPT ![t] = Finished(tk, r)]
    /\ lock' = release(h, t)
    /\ procs' = ps
    /\ UNCHANGED lastMultiPV

\* _send_command(c) through writer w, then on to nextpc: RuntimeError without
\* a writer, ConnectionResetError from drain() when the pipe's process is gone
SendCommand(t, h, tk, ps, w, c, nextpc) ==
    IF w = None \/ ~ps[w].alive
    THEN Raise(t, h, tk, ps)
    ELSE /\ procs' = [ps EXCEPT ![w].inq =
                         IF c.cmd \in Answered THEN Append(@, c) ELSE @]
         /\ lastMultiPV' = IF c.cmd = "setoption" /\ c.name = "MultiPV"
                           THEN c.arg ELSE lastMultiPV
         /\ task' = [task EXCEPT ![t] =
                        [tk EXCEPT !.pc = nextpc, !.nwritten = @ + 1,
                                   !.sent = Append(@, c)]]
         /\ lock' = h

\* ---- _read_line

\* The stream a read of task t is on: the one it is suspended on, else self._reader
ReadFrom(t) == IF task[t].rd # None THEN task[t].rd ELSE reader

\* What the next read of task t does
ReadOutcome(t) ==
    LET r == task[t].rd IN
    IF r # None
    THEN \* suspended in readline() on stream r
         IF procs[r].out # <<>> THEN "line"
         ELSE IF procs[r].alive THEN "wait"
         \* b"" came back; the loop calls _read_line again at once
         ELSE IF reader = r THEN "spin"
         ELSE IF reader = None THEN "raise"
         ELSE "retry"
    ELSE IF reader = None THEN "raise"             \* RuntimeError, line 128
         ELSE IF procs[reader].out # <<>> THEN "line"
         ELSE IF ~procs[reader].alive THEN "spin"
         \* readuntil() called while another coroutine is already waiting
         ELSE IF \E u \in Tasks \ {t} : task[u].rd = reader THEN "raise"
         ELSE "block"

\* A read that returns a line: the line, the reading task's record once
\* readline() has returned, and the subprocesses once the line is taken
LineRead(t) == Head(procs[ReadFrom(t)].out)

Resumed(t) == [task[t] EXCEPT !.rd = None]

LineTaken(t) == [procs EXCEPT ![ReadFrom(t)].out = Tail(@)]

\* One turn of a read loop (_wait_for, _read_until_bestmove) of task t in
\* which _read_line hands the loop no line
ReadNoLine(t) ==
    LET o   == ReadOutcome(t)
        tk0 == Resumed(t)
    IN  CASE o = "block" -> /\ task' = [task EXCEPT ![t].rd = reader]
                            /\ UNCHANGED <<lock, procs, lastMultiPV>>
          [] o = "retry" -> /\ task' = [task EXCEPT ![t] = tk0]
                            /\ UNCHANGED <<lock, procs, lastMultiPV>>
          [] o = "spin"  -> /\ task' = [task EXCEPT ![t] = [tk0 EXCEPT !.pc = "spin"]]
                            /\ UNCHANGED <<lock, procs, lastMultiPV>>
          [] o = "raise" -> Raise(t, lock, tk0, procs)
          [] OTHER       -> FALSE

\* The loop keeps reading: the line was not the one awaited
KeepReading(t, tk, ps) ==
    /\ task' = [task EXCEPT ![t] = tk]
    /\ procs' = ps
    /\ UNCHANGED <<lock, lastMultiPV>>

\* The loop of a task that read b"" from a closed stream: it never suspends
Spin(t) ==
    /\ task[t].pc = "spin"
    /\ UNCHANGED vars

\* ---- the lock

\* A lock that admits every caller at once: what C1 rules out
lock_admits_all == TRUE

\* Lock.acquire: taken at once when free with nobody queued, else queue up
lock_free == lock = None /\ waiters = <<>>


\* Lock.acquire on a lock that is held or has waiters: queue up and suspend
Enqueue(t, waitpc) ==
    /\ waiters' = Append(waiters, t)
    /\ task' = [task EXCEPT ![t].pc = waitpc]
    /\ UNCHANGED <<lock, procs, lastMultiPV>>

\* A release that wakes the waiter that came last: what C12 rules out
WakeLast(t) ==
    /\ lock = None
    /\ waiters # <<>> /\ waiters[Len(waiters)] = t
    /\ waiters' = SubSeq(waiters, 1, Len(waiters) - 1)

\* The first waiter, woken by release, leaves the queue to take the lock
Wake(t) ==
    /\ lock = None
    /\ waiters # <<>> /\ Head(waiters) = t
    /\ waiters' = Tail(waiters)

\* ---- analyze_position

ChangesMultiPV(nm) == nm # None /\ nm # Config.multipv

\* Lines 169-173 without the check of lines 165-166
AnalyzeLockedUnchecked(t) ==
    IF ChangesMultiPV(task[t].num_moves)
    THEN SendCommand(t, t, task[t], procs, writer,
                     Cmd("setoption", "MultiPV", task[t].num_moves), "an_pos")
    ELSE SendCommand(t, t, task[t], procs, writer,
                     Cmd("position", "fen", 0), "an_go")

\* Lines 165-173: the code from taking the lock to the first drain()
AnalyzeLocked(t) ==
    IF ~is_ready
    THEN Raise(t, t, task[t], procs)
    ELSE IF ChangesMultiPV(task[t].num_moves)
    THEN SendCommand(t, t, task[t], procs, writer,
                     Cmd("setoption", "MultiPV", task[t].num_moves), "an_pos")
    ELSE SendCommand(t, t, task[t], procs, writer,
                     Cmd("position", "fen", 0), "an_go")

AnalyzeEnter(t) ==
    /\ ~LoopBlocked
    /\ task[t].pc = "an_enter"
    /\ IF lock_free
       THEN AnalyzeLocked(t) /\ UNCHANGED waiters
       ELSE Enqueue(t, "an_lock")
    /\ UNCHANGED <<handles, ncalls, nstarts, pure>>

AnalyzeResume(t) ==
    /\ ~LoopBlocked
    /\ task[t].pc = "an_lock"
    /\ Wake(t)
    /\ AnalyzeLocked(t)
    /\ UNCHANGED <<handles, ncalls, nstarts, pure>>

\* Line 173
AnalyzePosition(t) ==
    /\ ~LoopBlocked
    /\ task[t].pc = "an_pos"
    /\ SendCommand(t, lock, task[t], procs, writer, Cmd("position", "fen", 0), "an_go")
    /\ UNCHANGED <<handles, waiters, ncalls, nstarts, pure>>

\* A go command written after giving the lock away, the read left unguarded:
\* what C2 rules out
AnalyzeGoUnlocked(t) ==
    /\ ~LoopBlocked
    /\ task[t].pc = "an_go"
    /\ SendCommand(t, None, task[t], procs, writer,
                   Cmd("go", "depth", task[t].call), "an_read")
    /\ UNCHANGED <<handles, waiters, ncalls, nstarts, pure>>

\* Lines 177-190; the go command carries the search it starts
AnalyzeGo(t) ==
    /\ ~LoopBlocked
    /\ task[t].pc = "an_go"
    /\ SendCommand(t, lock, task[t], procs, writer,
                   Cmd("go", "depth", task[t].call), "an_read")
    /\ UNCHANGED <<handles, waiters, ncalls, nstarts, pure>>

\* Whether a line answers the go command of the call that reads it
Origin(tk, ln) == IF ln.search = tk.call THEN "own" ELSE "other"

\* _read_until_bestmove on a line, then lines 196-202
AnalyzeOnLine(t, tk, ps, ln, p) ==
    CASE ln.kind = "info" ->
            KeepReading(t, [tk EXCEPT !.got = @ \cup {Origin(tk, ln)}], ps)
      [] ln.kind = "bestmove" ->
            LET tk1 == [tk EXCEPT !.got = @ \cup {Origin(tk, ln)}] IN
            IF ChangesMultiPV(tk.num_moves)
            THEN SendCommand(t, lock, tk1, ps, writer,
                             Cmd("setoption", "MultiPV", Config.multipv), "an_ret")
            ELSE Return(t, lock, tk1, ps, "ok")
      [] OTHER -> KeepReading(t, tk, ps)

AnalyzeRead(t) ==
    /\ ~LoopBlocked
    /\ task[t].pc = "an_read"
    /\ IF ReadOutcome(t) = "line"
       THEN AnalyzeOnLine(t, Resumed(t), LineTaken(t), LineRead(t), ReadFrom(t))
       ELSE ReadNoLine(t)
    /\ UNCHANGED <<handles, waiters, ncalls, nstarts, pure>>

\* Line 202, after the drain() of the restoring setoption
AnalyzeReturn(t) ==
    /\ ~LoopBlocked
    /\ task[t].pc = "an_ret"
    /\ Return(t, lock, task[t], procs, "ok")
    /\ UNCHANGED <<handles, waiters, ncalls, nstarts, pure>>

\* ---- is_ready

IsReadyLocked(t) ==
    SendCommand(t, t, task[t], procs, writer, Cmd("isready", "", 0), "ir_read")

\* Lines 367-371
IsReadyEnter(t) ==
    /\ ~LoopBlocked
    /\ task[t].pc = "ir_enter"
    /\ IF ~is_ready
       THEN Return(t, lock, task[t], procs, "false") /\ UNCHANGED waiters
       ELSE IF lock_free
       THEN IsReadyLocked(t) /\ UNCHANGED waiters
       ELSE Enqueue(t, "ir_lock")
    /\ UNCHANGED <<handles, ncalls, nstarts, pure>>

IsReadyResume(t) ==
    /\ ~LoopBlocked
    /\ task[t].pc = "ir_lock"
    /\ Wake(t)
    /\ IsReadyLocked(t)
    /\ UNCHANGED <<handles, ncalls, nstarts, pure>>

\* _wait_for(expected) on a line, when the awaited line ends the call
WaitOnLine(t, tk, ps, ln, expected, r) ==
    IF ln.kind = expected
    THEN Return(t, lock, tk, ps, r)
    ELSE KeepReading(t, tk, ps)

\* Lines 372-373
IsReadyRead(t) ==
    /\ ~LoopBlocked
    /\ task[t].pc = "ir_read"
    /\ IF ReadOutcome(t) = "line"
       THEN WaitOnLine(t, Resumed(t), LineTaken(t), LineRead(t), "readyok", "true")
       ELSE ReadNoLine(t)
    /\ UNCHANGED <<handles, waiters, ncalls, nstarts, pure>>

\* ---- new_game

NewGameLocked(t) ==
    SendCommand(t, t, task[t], procs, writer, Cmd("ucinewgame", "", 0), "ng_isready")

\* Lines 377-378
NewGameEnter(t) ==
    /\ ~LoopBlocked
    /\ task[t].pc = "ng_enter"
    /\ IF lock_free
       THEN NewGameLocked(t) /\ UNCHANGED waiters
       ELSE Enqueue(t, "ng_lock")
    /\ UNCHANGED <<handles, ncalls, nstarts, pure>>

NewGameResume(t) ==
    /\ ~LoopBlocked
    /\ task[t].pc = "ng_lock"
    /\ Wake(t)
    /\ NewGameLocked(t)
    /\ UNCHANGED <<handles, ncalls, nstarts, pure>>

\* Line 379
NewGameIsReady(t) ==
    /\ ~LoopBlocked
    /\ task[t].pc = "ng_isready"
    /\ SendCommand(t, lock, task[t], procs, writer, Cmd("isready", "", 0), "ng_read")
    /\ UNCHANGED <<handles, waiters, ncalls, nstarts, pure>>

\* Line 380
NewGameRead(t) ==
    /\ ~LoopBlocked
    /\ task[t].pc = "ng_read"
    /\ IF ReadOutcome(t) = "line"
       THEN WaitOnLine(t, Resumed(t), LineTaken(t), LineRead(t), "readyok", "ok")
       ELSE ReadNoLine(t)
    /\ UNCHANGED <<handles, waiters, ncalls, nstarts, pure>>

\* ---- stop (also run by start on an adapter that has a process)

\* Lines 98-102.  In start, line 65 guards the call of stop
StopEnter(t) ==
    /\ ~LoopBlocked
    /\ task[t].pc = "sp_enter"
    /\ IF process = None
       THEN Return(t, lock, task[t], procs, "ok")
       ELSE SendCommand(t, lock, task[t], procs, writer, Cmd("quit", "", 0), "sp_eval")
    /\ UNCHANGED <<handles, waiters, ncalls, nstarts, pure>>

\* Line 105: self._process.wait() is built after the drain() of quit
StopAwaitExit(t) ==
    /\ ~LoopBlocked
    /\ task[t].pc = "sp_eval"
    /\ IF process = None
       THEN Raise(t, lock, task[t], procs)      \* AttributeError on None
       ELSE /\ task' = [task EXCEPT ![t] = [@ EXCEPT !.pc = "sp_wait", !.waitp = process]]
            /\ UNCHANGED <<lock, procs, lastMultiPV>>
    /\ UNCHANGED <<handles, waiters, ncalls, nstarts, pure>>

\* Lines 111-114, and what follows stop: its return, or line 71 of start
StopClear(t) ==
    /\ process' = None /\ reader' = None /\ writer' = None
    /\ is_ready' = FALSE
    /\ IF task[t].op = "start"
       THEN /\ task' = [task EXCEPT ![t] = [@ EXCEPT !.pc = "st_spawn", !.waitp = None]]
            /\ UNCHANGED <<lock, procs, lastMultiPV>>
       ELSE Return(t, lock, [task[t] EXCEPT !.waitp = None], procs, "ok")

\* The awaited process has exited: wait() returns (line 105 or line 109)
StopExited(t) ==
    /\ ~LoopBlocked
    /\ task[t].pc \in {"sp_wait", "sp_killed"}
    /\ ~procs[task[t].waitp].alive
    /\ StopClear(t)
    /\ UNCHANGED <<waiters, ncalls, nstarts, pure>>

\* A grace period that runs out without a kill, the handles cleared at once:
\* what C11 rules out
StopTimeoutNoKill(t) ==
    /\ ~LoopBlocked
    /\ task[t].pc = "sp_wait"
    /\ procs[task[t].waitp].alive
    /\ StopClear(t)
    /\ UNCHANGED <<waiters, ncalls, nstarts, pure>>

\* Lines 106-109: the grace period ran out; kill what self._process is now
StopTimeout(t) ==
    /\ ~LoopBlocked
    /\ task[t].pc = "sp_wait"
    /\ procs[task[t].waitp].alive
    /\ IF process = None \/ ~procs[process].alive
       THEN Raise(t, lock, task[t], procs)   \* AttributeError, ProcessLookupError
       ELSE /\ procs' = [procs EXCEPT ![process] = [@ EXCEPT !.alive = FALSE, !.inq = <<>>]]
            /\ task' = [task EXCEPT ![t] = [@ EXCEPT !.pc = "sp_killed", !.waitp = process]]
            /\ UNCHANGED <<lock, lastMultiPV>>
    /\ UNCHANGED <<handles, waiters, ncalls, nstarts, pure>>

\* ---- start

\* Lines 65-67
StartEnter(t) ==
    /\ ~LoopBlocked
    /\ task[t].pc = "st_enter"
    /\ IF process # None
       THEN SendCommand(t, lock, task[t], procs, writer, Cmd("quit", "", 0), "sp_eval")
       ELSE /\ task' = [task EXCEPT ![t].pc = "st_spawn"]
            /\ UNCHANGED <<lock, procs, lastMultiPV>>
    /\ UNCHANGED <<handles, waiters, ncalls, nstarts, pure>>

\* Lines 71-82: the subprocess exists, the handles are set, "uci" is written
StartSpawn(t) ==
    /\ ~LoopBlocked
    /\ task[t].pc = "st_spawn"
    /\ Len(procs) < MaxSpawn
    /\ LET p == Len(procs) + 1 IN
        /\ process' = p /\ reader' = p /\ writer' = p
        /\ SendCommand(t, lock, [task[t] EXCEPT !.spawned = p],
                       Append(procs, NewProc), p, Cmd("uci", "", 0), "st_uciok")
    /\ UNCHANGED <<is_ready, waiters, ncalls, nstarts, pure>>

\* Line 71: create_subprocess_exec raises (no such executable)
StartSpawnFails(t) ==
    /\ ~LoopBlocked
    /\ task[t].pc = "st_spawn"
    /\ Raise(t, lock, task[t], procs)
    /\ UNCHANGED <<handles, waiters, ncalls, nstarts, pure>>

\* to_uci_options with its last option lost
OptionsButLast == SubSeq(to_uci_options(Config), 1, Len(to_uci_options(Config)) - 1)

Options == to_uci_options(Config)

SetOption(i) == Cmd("setoption", Options[i], IF Options[i] = "MultiPV" THEN Config.multipv ELSE 0)

\* A ready flag raised as soon as "uciok" is read: what C8 rules out
ReadyAtUciok == TRUE

\* self._is_ready once "uciok" is read: start leaves it alone until line 93
ReadyAfterUciok == is_ready

\* Line 83, then the first turn of the loop of lines 86-87
StartOnUciok(t, tk, ps, ln, p) ==
    IF ln.kind = "uciok"
    THEN /\ is_ready' = ReadyAfterUciok
         /\ SendCommand(t, lock, [tk EXCEPT !.uciokFrom = p, !.optIdx = 2],
                        ps, writer, SetOption(1), "st_opts")
    ELSE /\ KeepReading(t, tk, ps)
         /\ UNCHANGED is_ready

StartWaitUciok(t) ==
    /\ ~LoopBlocked
    /\ task[t].pc = "st_uciok"
    /\ IF ReadOutcome(t) = "line"
       THEN StartOnUciok(t, Resumed(t), LineTaken(t), LineRead(t), ReadFrom(t))
       ELSE ReadNoLine(t) /\ UNCHANGED is_ready
    /\ UNCHANGED <<process, reader, writer, waiters, ncalls, nstarts, pure>>

\* Lines 86-90: the next setoption, and "isready" after the last one
StartOptions(t) ==
    /\ ~LoopBlocked
    /\ task[t].pc = "st_opts"
    /\ LET i == task[t].optIdx IN
       IF i <= Len(Options)
       THEN SendCommand(t, lock, [task[t] EXCEPT !.optIdx = i + 1], procs, writer,
                        SetOption(i), "st_opts")
       ELSE SendCommand(t, lock, task[t], procs, writer, Cmd("isready", "", 0), "st_readyok")
    /\ UNCHANGED <<handles, waiters, ncalls, nstarts, pure>>

\* Lines 91-94
StartOnReadyok(t, tk, ps, ln, p) ==
    IF ln.kind = "readyok"
    THEN /\ is_ready' = TRUE
         /\ Return(t, lock, tk, ps, "ok")
    ELSE /\ KeepReading(t, tk, ps)
         /\ UNCHANGED is_ready

StartWaitReadyok(t) ==
    /\ ~LoopBlocked
    /\ task[t].pc = "st_readyok"
    /\ IF ReadOutcome(t) = "line"
       THEN StartOnReadyok(t, Resumed(t), LineTaken(t), LineRead(t), ReadFrom(t))
       ELSE ReadNoLine(t) /\ UNCHANGED is_ready
    /\ UNCHANGED <<process, reader, writer, waiters, ncalls, nstarts, pure>>

\* ---- the engine subprocess (a UCI engine, or whatever the executable is)

\* The engine takes the next command it must answer and answers it; quit ends it
EngineRespond(p) ==
    /\ procs[p].alive /\ ~procs[p].wedged
    /\ procs[p].inq # <<>>
    /\ LET c == Head(procs[p].inq) IN
       procs' = [procs EXCEPT ![p] =
                    IF c.cmd = "quit"
                    THEN [@ EXCEPT !.alive = FALSE, !.inq = <<>>]
                    ELSE [@ EXCEPT !.inq = Tail(@), !.out = @ \o Response(c)]]
    /\ UNCHANGED <<handles, lock, waiters, task, lastMultiPV, ncalls, nstarts, pure>>

\* The engine exits on its own; what it had printed stays readable
EngineCrash(p) ==
    /\ procs[p].alive
    /\ procs' = [procs EXCEPT ![p] = [@ EXCEPT !.alive = FALSE, !.inq = <<>>]]
    /\ UNCHANGED <<handles, lock, waiters, task, lastMultiPV, ncalls, nstarts, pure>>

\* The engine stays alive and answers nothing from now on (seen only once it
\* owes an answer)
EngineWedge(p) ==
    /\ procs[p].alive /\ ~procs[p].wedged
    /\ procs[p].inq # <<>>
    /\ procs' = [procs EXCEPT ![p].wedged = TRUE]
    /\ UNCHANGED <<handles, lock, waiters, task, lastMultiPV, ncalls, nstarts, pure>>

TaskStep(t) ==
    \/ AnalyzeEnter(t) \/ AnalyzeResume(t) \/ AnalyzePosition(t) \/ AnalyzeGo(t)
    \/ AnalyzeRead(t) \/ AnalyzeReturn(t)
    \/ IsReadyEnter(t) \/ IsReadyResume(t) \/ IsReadyRead(t)
    \/ NewGameEnter(t) \/ NewGameResume(t) \/ NewGameIsReady(t) \/ NewGameRead(t)
    \/ StopEnter(t) \/ StopAwaitExit(t) \/ StopExited(t) \/ StopTimeout(t)
    \/ StartEnter(t) \/ StartSpawn(t) \/ StartSpawnFails(t)
    \/ StartWaitUciok(t) \/ StartOptions(t) \/ StartWaitReadyok(t)

EngineStep(p) == EngineRespond(p) \/ EngineCrash(p) \/ EngineWedge(p)

Next ==
    \/ \E t \in Tasks : \E o \in Operations : \E nm \in NumMovesInputs : Call(t, o, nm)
    \/ \E t \in Tasks : TaskStep(t)
    \/ \E t \in Tasks : Spin(t)
    \/ \E p \in DOMAIN procs : EngineStep(p)

Spec == Init /\ [][Next]_vars

\* The event loop runs every task that can run
FairSpec == Spec /\ \A t \in Tasks : WF_vars(TaskStep(t))

\* ---- the adapter as src/main.py drives it

ClientOps == {"analyze_position", "is_ready", "new_game"}

Running(t) == task[t].pc \notin {"idle", "done"}

\* lifespan(): start() is awaited first and alone; requests reach an adapter
\* only once start() has returned (it is registered then); stop() comes at
\* shutdown, when no request is left
LifespanOrder(o) ==
    CASE o = "start" -> ncalls = 0
      [] o = "stop"  -> is_ready /\ \A u \in Tasks : ~Running(u)
      [] OTHER       -> is_ready /\ \A u \in Tasks : Running(u) => task[u].op \in ClientOps

LifespanCall(t, o, nm) == LifespanOrder(o) /\ Call(t, o, nm)

LifespanNext ==
    \/ \E t \in Tasks : \E o \in Operations : \E nm \in NumMovesInputs : LifespanCall(t, o, nm)
    \/ \E t \in Tasks : TaskStep(t)
    \/ \E t \in Tasks : Spin(t)
    \/ \E p \in DOMAIN procs : EngineStep(p)

LifespanSpec == Init /\ [][LifespanNext]_vars

LifespanFairSpec == LifespanSpec /\ \A t \in Tasks : WF_vars(TaskStep(t))

\* Shutdown as a test drives it: stop() is awaited alone whenever no call is
\* running, also before any start() and again after a stop()
TeardownOrder(o) ==
    IF o = "stop" THEN \A u \in Tasks : ~Running(u) ELSE LifespanOrder(o)

TeardownCall(t, o, nm) == TeardownOrder(o) /\ Call(t, o, nm)

TeardownNext ==
    \/ \E t \in Tasks : \E o \in Operations : \E nm \in NumMovesInputs : TeardownCall(t, o, nm)
    \/ \E t \in Tasks : TaskStep(t)
    \/ \E t \in Tasks : Spin(t)
    \/ \E p \in DOMAIN procs : EngineStep(p)

TeardownSpec == Init /\ [][TeardownNext]_vars

\* ---- the adapter while it serves requests

\* The adapter once lifespan() has started it (start() has returned, lines
\* 71-93 have run), before the request tasks make their first call
ServingInit ==
    /\ process = 1 /\ reader = 1 /\ writer = 1
    /\ is_ready = TRUE
    /\ lock = None /\ waiters = <<>>
    /\ procs = <<NewProc>>
    /\ task = [t \in Tasks |-> IdleTask]
    /\ lastMultiPV = Config.multipv
    /\ ncalls = 0 /\ nstarts = 1
    /\ parse = NoParse /\ go = NoGo /\ wdl = NoWdl

\* The calls that take the lock: analyze_position and is_ready as the routes
\* make them, and new_game
ServingCall(t, o, nm) == o \in ClientOps /\ Call(t, o, nm)

ClientStep(t) ==
    \/ AnalyzeEnter(t) \/ AnalyzeResume(t) \/ AnalyzePosition(t) \/ AnalyzeGo(t)
    \/ AnalyzeRead(t) \/ AnalyzeReturn(t)
    \/ IsReadyEnter(t) \/ IsReadyResume(t) \/ IsReadyRead(t)
    \/ NewGameEnter(t) \/ NewGameResume(t) \/ NewGameIsReady(t) \/ NewGameRead(t)

ServingNext ==
    \/ \E t \in Tasks : \E o \in Operations : \E nm \in NumMovesInputs : ServingCall(t, o, nm)
    \/ \E t \in Tasks : ClientStep(t)
    \/ \E t \in Tasks : Spin(t)
    \/ \E p \in DOMAIN procs : EngineStep(p)

ServingSpec == ServingInit /\ [][ServingNext]_vars

\* ---- requests that are cancelled

\* waiters without task t
Without(q, t) == SelectSeq(q, LAMBDA u : u # t)

\* The caller of task t cancels it (asyncio.wait_for, a cancelled request):
\* CancelledError is raised at the await the call is suspended in, the
\* acquire of line 164, 369 or 377 or the readline() of line 132, and leaves
\* through "async with", which releases the lock if the call holds it
Cancel(t) ==
    /\ ~LoopBlocked
    /\ task[t].op \in ClientOps
    /\ \/ /\ \E i \in DOMAIN waiters : waiters[i] = t
          /\ waiters' = Without(waiters, t)
          /\ task' = [task EXCEPT ![t] = Finished(task[t], "cancelled")]
          /\ UNCHANGED <<lock, procs, lastMultiPV>>
       \/ /\ task[t].rd # None
          /\ task' = [task EXCEPT ![t] = Finished(task[t], "cancelled")]
          /\ lock' = release(lock, t)
          /\ UNCHANGED <<waiters, procs, lastMultiPV>>
    /\ UNCHANGED <<handles, ncalls, nstarts, pure>>

CancelNext ==
    \/ \E t \in Tasks : \E o \in Operations : \E nm \in NumMovesInputs : ServingCall(t, o, nm)
    \/ \E t \in Tasks : ClientStep(t)
    \/ \E t \in Tasks : Cancel(t)
    \/ \E t \in Tasks : Spin(t)
    \/ \E p \in DOMAIN procs : EngineStep(p)

CancelSpec == ServingInit /\ [][CancelNext]_vars

\* ---- the adapter's lifecycle on its own

\* start() and stop() called by any task at any time, as the class allows
LifecycleOps == {"start", "stop"}

LifecycleCall(t, o, nm) == o \in LifecycleOps /\ Call(t, o, nm)

LifecycleStep(t) ==
    \/ StopEnter(t) \/ StopAwaitExit(t) \/ StopExited(t) \/ StopTimeout(t)
    \/ StartEnter(t) \/ StartSpawn(t) \/ StartSpawnFails(t)
    \/ StartWaitUciok(t) \/ StartOptions(t) \/ StartWaitReadyok(t)

LifecycleNext ==
    \/ \E t \in Tasks : \E o \in Operations : \E nm \in NumMovesInputs : LifecycleCall(t, o, nm)
    \/ \E t \in Tasks : LifecycleStep(t)
    \/ \E t \in Tasks : Spin(t)
    \/ \E p \in DOMAIN procs : EngineStep(p)

LifecycleSpec == Init /\ [][LifecycleNext]_vars

\* ---- _parse_analysis: the lines it is handed
\* A pattern that may or may not find its field is a set: empty when the
\* search finds nothing, else holding the integer of the first match.

Val(o) == CHOOSE v \in o : TRUE

OrZero(o) == IF o = {} THEN 0 ELSE Val(o)

Max(a, b) == IF a >= b THEN a ELSE b

Abs(n) == IF n < 0 THEN -n ELSE n

\* The telemetry fields of a line: all of them, none, or only some
Telemetry ==
    [all  |-> [depth |-> {10}, seldepth |-> {14}, nodes |-> {500},
               time |-> {120}, nps |-> {4000}],
     none |-> [depth |-> {}, seldepth |-> {}, nodes |-> {},
               time |-> {}, nps |-> {}],
     some |-> [depth |-> {12}, seldepth |-> {12}, nodes |-> {300},
               time |-> {}, nps |-> {}]]

\* The score fields of a line: "score cp", "score mate", both or neither
Scores ==
    {[cp |-> {35},  mate |-> {}],   [cp |-> {},    mate |-> {3}],
     [cp |-> {-50}, mate |-> {1}],  [cp |-> {},    mate |-> {-2}],
     [cp |-> {},    mate |-> {-4}], [cp |-> {},    mate |-> {}]}

\* The variations of a line, on the board of the start position: none, legal
\* ones, one that turns illegal or unparseable at its second move, and first
\* moves that are illegal from an occupied square, unparseable, or from an
\* empty square
Variations ==
    {<<>>, <<"e2e4", "e7e5">>, <<"d2d4">>, <<"e2e4", "e2e4">>,
     <<"e2e4", "xx">>, <<"e7e5", "e2e4">>, <<"xx">>, <<"e4e5">>}

\* A line as the patterns of lines 218-226 see it: word says whether the text
\* "multipv" occurs in it, mpv is what multipv_pattern finds after it.
InfoLine(word, mpv, tele, score, pv) ==
    [word |-> word, mpv |-> mpv,
     depth |-> tele.depth, seldepth |-> tele.seldepth, nodes |-> tele.nodes,
     time |-> tele.time, nps |-> tele.nps,
     cp |-> score.cp, mate |-> score.mate, pv |-> pv]

InfoLines ==
    {InfoLine(TRUE, {i}, Telemetry.all, sc, pv) :
         i \in {1, 2}, sc \in Scores, pv \in Variations}
    \cup
    {InfoLine(m[1], m[2], te, [cp |-> {35}, mate |-> {}], <<"e2e4", "e7e5">>) :
         m \in {<<FALSE, {}>>, <<TRUE, {}>>, <<TRUE, {1}>>, <<TRUE, {2}>>},
         te \in {Telemetry.none, Telemetry.some}}

\* ---- _parse_analysis: what python-chess answers on these lines

\* The moves chess.Move.from_uci accepts; on anything else it raises
from_uci == {"e2e4", "d2d4", "e7e5", "e4e5"}

\* temp_board.legal_moves after the moves pushed so far, from the start
\* position, among the moves the lines hold
legal_moves(pushed) ==
    IF pushed = <<>> THEN {"e2e4", "d2d4"}
    ELSE IF pushed \in {<<"e2e4">>, <<"d2d4">>} THEN {"e7e5"}
    ELSE IF pushed = <<"e2e4", "e7e5">> THEN {"d2d4"}
    ELSE IF pushed = <<"d2d4", "e7e5">> THEN {"e2e4"}
    ELSE {}

\* The moves whose from-square holds a piece on the start position:
\* board.san answers for these, legal or not, and fails its assertion
\* (an AssertionError) on a move from an empty square
has_piece == {"e2e4", "d2d4", "e7e5"}

san(move) ==
    CASE move = "e2e4" -> "e4"
      [] move = "d2d4" -> "d4"
      [] move = "e7e5" -> "e5"

\* ---- _parse_analysis: the loop body

\* Lines 349-360: win and draw, evaluated in floating point (IEEE doubles) at
\* the scores -1900, -1875, ... 1900, in this order
WinDrawSamples ==
    <<
     <<0, 1>>, <<0, 1>>, <<0, 1>>, <<0, 1>>, <<0, 1>>, <<0, 1>>, <<0, 1>>,
     <<0, 1>>, <<0, 1>>, <<0, 1>>, <<0, 2>>, <<0, 2>>, <<0, 2>>, <<0, 2>>,
     <<0, 2>>, <<0, 3>>, <<0, 3>>, <<0, 3>>, <<0, 3>>, <<0, 4>>, <<0, 4>>,
     <<1, 4>>, <<1, 5>>, <<1, 5>>, <<1, 6>>, <<1, 6>>, <<1, 7>>, <<2, 7>>,
     <<2, 8>>, <<2, 8>>, <<3, 9>>, <<3, 10>>, <<4, 10>>, <<4, 11>>, <<5,
     12>>, <<5, 13>>, <<6, 14>>, <<7, 15>>, <<8, 17>>, <<9, 18>>, <<10,
     19>>, <<12, 21>>, <<13, 22>>, <<15, 24>>, <<17, 26>>, <<19, 28>>,
     <<22, 30>>, <<25, 32>>, <<28, 35>>, <<31, 38>>, <<35, 40>>, <<40,
     43>>, <<45, 47>>, <<50, 50>>, <<56, 54>>, <<63, 58>>, <<71, 62>>,
     <<79, 67>>, <<88, 72>>, <<98, 77>>, <<109, 82>>, <<121, 88>>, <<133,
     95>>, <<147, 101>>, <<162, 108>>, <<178, 116>>, <<195, 124>>, <<212,
     132>>, <<230, 141>>, <<249, 150>>, <<269, 160>>, <<289, 170>>, <<308,
     181>>, <<328, 193>>, <<347, 205>>, <<366, 217>>, <<384, 230>>, <<415,
     217>>, <<446, 205>>, <<478, 193>>, <<509, 181>>, <<540, 170>>, <<570,
     160>>, <<599, 150>>, <<627, 141>>, <<654, 132>>, <<680, 124>>, <<705,
     116>>, <<728, 108>>, <<750, 101>>, <<771, 95>>, <<790, 88>>, <<807,
     82>>, <<824, 77>>, <<839, 72>>, <<853, 67>>, <<866, 62>>, <<877, 58>>,
     <<888, 54>>, <<898, 50>>, <<907, 47>>, <<915, 43>>, <<923, 40>>,
     <<930, 38>>, <<936, 35>>, <<941, 32>>, <<947, 30>>, <<951, 28>>,
     <<955, 26>>, <<959, 24>>, <<963, 22>>, <<966, 21>>, <<969, 19>>,
     <<972, 18>>, <<974, 17>>, <<976, 15>>, <<978, 14>>, <<980, 13>>,
     <<982, 12>>, <<983, 11>>, <<985, 10>>, <<986, 10>>, <<987, 9>>, <<988,
     8>>, <<989, 8>>, <<990, 7>>, <<991, 7>>, <<991, 6>>, <<992, 6>>,
     <<993, 5>>, <<993, 5>>, <<994, 4>>, <<994, 4>>, <<995, 4>>, <<995,
     3>>, <<995, 3>>, <<996, 3>>, <<996, 3>>, <<996, 2>>, <<996, 2>>,
     <<997, 2>>, <<997, 2>>, <<997, 2>>, <<997, 1>>, <<997, 1>>, <<998,
     1>>, <<998, 1>>, <<998, 1>>, <<998, 1>>, <<998, 1>>, <<998, 1>>,
     <<998, 1>>, <<998, 1>>
    >>

\* Line 352: math.exp(-score * 0.5) leaves the range of a double and raises
\* OverflowError from this score down
exp_overflows(score_cp) == score_cp <= 0 - 141957

\* Lines 349-360 on the scores the model uses: the sampled ones, those of
\* the lines of the parser, and the saturated ends on both sides
win_draw(score_cp) ==
    CASE score_cp >= 11845 -> <<1000, 0>>
      [] score_cp \in 1924..11844 -> <<999, 0>>
      [] score_cp \in 1901..1923 -> <<998, 0>>
      [] score_cp \in (0 - 141956)..(0 - 1901) -> <<0, 0>>
      [] score_cp = 35 -> <<428, 212>>
      [] score_cp = 0 - 35 -> <<359, 212>>
      [] score_cp \in (0 - 1900)..1900 /\ score_cp % 25 = 0 ->
             WinDrawSamples[(score_cp + 1900) \div 25 + 1]

\* Lines 359-363: loss is what win and draw leave of 1000
_estimate_wdl(score_cp) ==
    <<win_draw(score_cp)[1], win_draw(score_cp)[2],
      1000 - win_draw(score_cp)[1] - win_draw(score_cp)[2]>>

\* The scores _estimate_wdl is run on
ScoreInputs ==
    {25 * n - 1900 : n \in 0..152}
    \cup {35, 0 - 35, 1901, 1923, 1924, 9999, 11844, 11845, 32000, 1000000,
          0 - 1901, 0 - 9999, 0 - 32000, 0 - 141956, 0 - 141957, 0 - 142000}

EstimateReturn ==
    /\ wdl.pc = "args"
    /\ ~exp_overflows(wdl.score_cp)
    /\ wdl' = [wdl EXCEPT !.pc = "done",
                          !.result = <<_estimate_wdl(wdl.score_cp)>>]
    /\ UNCHANGED <<process, reader, writer, is_ready, lock, waiters, procs,
                   task, lastMultiPV, ncalls, nstarts, parse, go>>

EstimateOverflowError ==
    /\ wdl.pc = "args"
    /\ exp_overflows(wdl.score_cp)
    /\ wdl' = [wdl EXCEPT !.pc = "raised"]
    /\ UNCHANGED <<process, reader, writer, is_ready, lock, waiters, procs,
                   task, lastMultiPV, ncalls, nstarts, parse, go>>

\* Line 268 without its else branch
mate_to_cp_unsigned(mate_in) == MateScore - Abs(mate_in)

\* Line 268
mate_to_cp(mate_in) ==
    IF mate_in > 0 THEN MateScore - Abs(mate_in) ELSE (0 - MateScore) + Abs(mate_in)

\* Lines 262-270: a mate score wins over a centipawn score, no score is 0
score_of(ln) ==
    IF ln.mate # {} THEN mate_to_cp(Val(ln.mate))
    ELSE IF ln.cp # {} THEN Val(ln.cp)
    ELSE 0

\* Lines 282-292: the SAN of the moves of pv up to the first one that does
\* not parse or is not legal on the board the earlier ones lead to
RECURSIVE pv_san(_, _)
pv_san(pv, pushed) ==
    IF pv = <<>> THEN <<>>
    ELSE IF Head(pv) \in from_uci /\ Head(pv) \in legal_moves(pushed)
    THEN <<san(Head(pv))>> \o pv_san(Tail(pv), Append(pushed, Head(pv)))
    ELSE <<>>

\* Lines 303-315
MoveCandidate(ln) ==
    [move |-> ln.pv[1], move_san |-> san(ln.pv[1]),
     score_cp |-> score_of(ln), score_wdl |-> _estimate_wdl(score_of(ln)),
     pv |-> ln.pv, pv_san |-> pv_san(ln.pv, <<>>),
     nodes |-> OrZero(ln.nodes), depth |-> OrZero(ln.depth),
     policy |-> 0, rank |-> Val(ln.mpv), multipv_index |-> Val(ln.mpv)]

\* Lines 229-235: the line is passed over before anything is read from it
Skipped(ln) == ~ln.word \/ ln.mpv = {}

\* Lines 295-301: the line holds a variation whose first move parses
HasMove(ln) == ln.pv # <<>> /\ ln.pv[1] \in from_uci

\* Lines 249-259
Tally(p, ln) ==
    [p EXCEPT !.time_ms = IF ln.time # {} THEN Max(@, Val(ln.time)) ELSE @,
              !.nps = IF ln.nps # {} THEN Max(@, Val(ln.nps)) ELSE @,
              !.total_nodes = Max(@, OrZero(ln.nodes)),
              !.max_depth = Max(@, OrZero(ln.depth)),
              !.max_seldepth = Max(@, OrZero(ln.seldepth))]

\* candidates.setdefault(mpv_idx, c): the first candidate of an index stays
PutIfAbsent(candidates, mpv_idx, c) ==
    [k \in DOMAIN candidates \cup {mpv_idx} |->
        IF k \in DOMAIN candidates THEN candidates[k] ELSE c]

\* candidates[mpv_idx] = c
Put(candidates, mpv_idx, c) ==
    [k \in DOMAIN candidates \cup {mpv_idx} |->
        IF k = mpv_idx THEN c ELSE candidates[k]]

\* The adapter's own state, which a run of a pure function leaves alone
adapter == <<process, reader, writer, is_ready, lock, waiters, procs, task,
             lastMultiPV, ncalls, nstarts>>

\* One turn of the loop of line 228 on the next line of info_lines; the
\* lines of the list are chosen as the loop reaches them
Consumes(ln) ==
    /\ parse.pc = "loop"
    /\ Len(parse.lines) < MaxLines
    /\ ln \in InfoLines

Read(ln) == [parse EXCEPT !.lines = Append(@, ln)]

ParseSkip(ln) ==
    /\ Consumes(ln)
    /\ Skipped(ln)
    /\ parse' = Read(ln)
    /\ UNCHANGED <<adapter, go, wdl>>

ParseNoMove(ln) ==
    /\ Consumes(ln)
    /\ ~Skipped(ln) /\ ~HasMove(ln)
    /\ parse' = Tally(Read(ln), ln)
    /\ UNCHANGED <<adapter, go, wdl>>

ParseAssertionError(ln) ==
    /\ Consumes(ln)
    /\ ~Skipped(ln) /\ HasMove(ln) /\ ln.pv[1] \notin has_piece
    /\ parse' = [Tally(Read(ln), ln) EXCEPT !.pc = "raised"]
    /\ UNCHANGED <<adapter, go, wdl>>

ParseCandidate(ln) ==
    /\ Consumes(ln)
    /\ ~Skipped(ln) /\ HasMove(ln) /\ ln.pv[1] \in has_piece
    /\ parse' = [Tally(Read(ln), ln) EXCEPT
                    !.candidates = Put(@, Val(ln.mpv), MoveCandidate(ln))]
    /\ UNCHANGED <<adapter, go, wdl>>

\* ---- _parse_analysis: after the loop

\* sorted(keys): the keys in ascending order
sorted(keys) ==
    CHOOSE s \in [1..Cardinality(keys) -> keys] :
        \A i, j \in 1..Cardinality(keys) : i < j => s[i] < s[j]

sorted_candidates(candidates) ==
    [i \in 1..Cardinality(DOMAIN candidates) |->
        candidates[sorted(DOMAIN candidates)[i]]]

NeutralWDL == <<333, 334, 333>>

\* Lines 318-337
PositionAnalysis(p) ==
    LET sc == sorted_candidates(p.candidates) IN
    [candidates |-> sc,
     evaluation_cp |-> IF Len(sc) > 0 THEN sc[1].score_cp ELSE 0,
     evaluation_wdl |-> IF Len(sc) > 0 THEN sc[1].score_wdl ELSE NeutralWDL,
     total_nodes |-> p.total_nodes, time_ms |-> p.time_ms, nps |-> p.nps,
     depth |-> p.max_depth, seldepth |-> p.max_seldepth,
     multipv |-> Len(sc)]

ParseReturn ==
    /\ parse.pc = "loop"
    /\ parse' = [parse EXCEPT !.pc = "done",
                              !.result = <<PositionAnalysis(parse)>>]
    /\ UNCHANGED <<adapter, go, wdl>>

ParseInit ==
    /\ Constructed
    /\ parse = [NoParse EXCEPT !.pc = "loop"]
    /\ go = NoGo /\ wdl = NoWdl

ParseNext ==
    \/ \E ln \in InfoLines : ParseSkip(ln)
    \/ \E ln \in InfoLines : ParseNoMove(ln)
    \/ \E ln \in InfoLines : ParseAssertionError(ln)
    \/ \E ln \in InfoLines : ParseCandidate(ln)
    \/ ParseReturn

ParseSpec == ParseInit /\ [][ParseNext]_vars

\* ---- _estimate_wdl on its own

WdlInit ==
    /\ Constructed
    /\ parse = NoParse /\ go = NoGo
    /\ wdl \in [pc : {"args"}, score_cp : ScoreInputs, result : {<<>>}]

WdlNext == EstimateReturn \/ EstimateOverflowError

WdlSpec == WdlInit /\ [][WdlNext]_vars

\* ---- analyze_position: the go command

\* The budget arguments of a call; the empty set is None
DepthInputs == {{}, {0}, {1}, {18}, {40}}

TimeInputs == {{}, {1000}}

NodesInputs ==
    {{}, {0 - 1}, {0}, {499999}, {500000}, {599999}, {600000}, {1234567},
     {1999999}, {2000000}, {1000000000}}

Min(a, b) == IF a <= b THEN a ELSE b

\* Line 185 without its clamp
approx_depth_unclamped(nodes) == 10 + nodes \div 100000

\* Line 185
approx_depth(nodes) == Max(15, Min(30, 10 + nodes \div 100000))

\* Lines 177-188: the limits appended to "go", each with its value
go_cmd(depth, time_ms, nodes) ==
    IF depth # {} THEN <<[limit |-> "depth", value |-> Val(depth)]>>
    ELSE IF time_ms # {} THEN <<[limit |-> "movetime", value |-> Val(time_ms)]>>
    ELSE IF nodes # {} THEN <<[limit |-> "depth", value |-> approx_depth(Val(nodes))]>>
    ELSE <<[limit |-> "depth", value |-> 20]>>

BuildGo ==
    /\ go.pc = "args"
    /\ go' = [go EXCEPT !.pc = "built",
                        !.go_cmd = go_cmd(go.depth, go.time_ms, go.nodes)]
    /\ UNCHANGED <<adapter, parse, wdl>>

GoInit ==
    /\ Constructed
    /\ parse = NoParse /\ wdl = NoWdl
    /\ go \in [pc : {"args"}, depth : DepthInputs, time_ms : TimeInputs,
               nodes : NodesInputs, go_cmd : {<<>>}]

GoNext == BuildGo

GoSpec == GoInit /\ [][GoNext]_vars

\* ---- properties

LockWaitPcs == {"an_lock", "ir_lock", "ng_lock"}

EntryPcs == {"an_enter", "ir_enter", "ng_enter"}

\* The call of t has written a command and has not ended
InFlight(t) ==
    /\ task[t].op \in ClientOps
    /\ Running(t)
    /\ task[t].nwritten > 0

\* C1: at most one call among analyze_position, is_ready and new_game is in
\* flight; it holds the lock, and every other such call that has not ended is
\* queued on the lock (or about to queue) and has written nothing.
C1_OneInFlight ==
    /\ Cardinality({t \in Tasks : InFlight(t)}) <= 1
    /\ \A t \in Tasks : InFlight(t) => lock = t
    /\ \A t, u \in Tasks :
          (InFlight(t) /\ u # t /\ task[u].op \in ClientOps /\ Running(u))
              => /\ task[u].pc \in LockWaitPcs \cup EntryPcs
                 /\ task[u].nwritten = 0

C1_Witness ==
    \E t, u \in Tasks :
        /\ InFlight(t) /\ task[t].pc = "an_read"
        /\ task[u].pc \in LockWaitPcs
        /\ u \in {waiters[i] : i \in DOMAIN waiters}

\* C2: every info line and bestmove line an analyze_position call hands to the
\* parser answers that call's own go command, and a call that returns has
\* read such lines.
C2_NoMixedLines ==
    \A t \in Tasks :
        task[t].op = "analyze_position" =>
            /\ task[t].got \subseteq {"own"}
            /\ (task[t].pc = "done" /\ task[t].res = "ok") => task[t].got = {"own"}

\* Two analyze_position calls overlap and one has returned its result
C2_Witness ==
    \E t, u \in Tasks :
        /\ t # u
        /\ task[t].op = "analyze_position" /\ task[t].pc = "done" /\ task[t].res = "ok"
        /\ task[u].op = "analyze_position" /\ task[u].pc = "an_read"
        /\ task[u].got = {"own"}

\* A task in the read loop of op whose stream is closed
AwaitsOnClosedStream(t) ==
    /\ task[t].op \in {"analyze_position", "is_ready"}
    /\ task[t].pc \in {"an_read", "ir_read", "spin"}
    /\ ReadFrom(t) # None
    /\ AtEOF(ReadFrom(t))

Failed(t) == task[t].pc = "done" /\ task[t].res = "raised"

\* C3: when the engine's output stream closes while analyze_position or
\* is_ready waits for its sentinel, the call eventually ends with a failure.
C3_ClosedStreamFails ==
    \A t \in Tasks : AwaitsOnClosedStream(t) ~> Failed(t)

\* C4: a call of analyze_position, is_ready or new_game that has ended,
\* returned or raised, does not hold the lock; whoever holds it is inside
\* such a call.
C4_LockReleased ==
    /\ \A t \in Tasks : ~Running(t) => lock # t
    /\ lock # None => task[lock].op \in ClientOps

\* A call has raised and another task holds the lock after it
C4_Witness ==
    \E t, u \in Tasks :
        /\ t # u
        /\ task[t].op = "analyze_position" /\ Failed(t)
        /\ lock = u

\* The step ends the call of t
Ends(t) == Running(t) /\ task'[t].pc = "done"

\* C5: an analyze_position call that has set MultiPV to a requested count
\* ends, in whatever way, with the configured value as the last MultiPV sent.
C5_MultiPVRestored ==
    [][\A t \in Tasks :
          (/\ task[t].op = "analyze_position"
           /\ ChangesMultiPV(task[t].num_moves)
           /\ task[t].nwritten > 0
           /\ Ends(t))
              => lastMultiPV' = Config.multipv]_vars

\* C6: a stop() that found a process handle ends without raising and leaves
\* the process handle and both stream handles cleared and ready false.
C6_StopNeverFails ==
    [][\A t \in Tasks :
          (task[t].op = "stop" /\ Ends(t) /\ process # None)
              => /\ task'[t].res = "ok"
                 /\ process' = None /\ reader' = None /\ writer' = None
                 /\ ~is_ready']_vars

\* C7: a start() that fails leaves the process handle cleared.
C7_FailedStartClears ==
    [][\A t \in Tasks :
          (task[t].op = "start" /\ Ends(t) /\ task'[t].res = "raised")
              => process' = None]_vars

C9_IsReadyNeverRaises ==
    \A t \in Tasks :
        (task[t].op = "is_ready" /\ task[t].pc = "done")
            => task[t].res \in {"true", "false"}

SentinelWaitPcs == {"st_uciok", "st_readyok", "an_read", "ir_read", "ng_read"}

\* Task t waits for a sentinel from a live engine that answers nothing
AwaitsSilentEngine(t) ==
    /\ task[t].pc \in SentinelWaitPcs
    /\ task[t].rd # None
    /\ procs[task[t].rd].alive /\ procs[task[t].rd].wedged
    /\ procs[task[t].rd].out = <<>>

\* C10: a wait for a sentinel that a live engine never sends ends with a
\* (timeout) failure, unless the engine goes away first.
C10_WaitIsBounded ==
    \A t \in Tasks :
        AwaitsSilentEngine(t) ~> (Failed(t) \/ ~AwaitsSilentEngine(t))
\* The step is one of the call of t
Steps(t) == task'[t] # task[t] /\ Running(t)

\* C11: a stop() whose awaited process is still alive when the grace period
\* runs out kills that process, awaits its exit and ends normally with the
\* process handle and both stream handles cleared and ready false; a stop()
\* that finds no process handle ends at once, writes nothing and changes
\* nothing of the adapter or of the engines.
C11_StopKillsThenNoOp ==
    [][\A t \in Tasks :
          (task[t].op = "stop" /\ Steps(t)) =>
              /\ (task[t].pc = "sp_wait" /\ procs[task[t].waitp].alive)
                    => /\ task'[t].pc = "sp_killed"
                       /\ task'[t].waitp = task[t].waitp
                       /\ ~procs'[task[t].waitp].alive
              /\ task[t].pc = "sp_killed"
                    => /\ ~procs[task[t].waitp].alive
                       /\ task'[t].pc = "done" /\ task'[t].res = "ok"
                       /\ process' = None /\ reader' = None /\ writer' = None
                       /\ ~is_ready'
              /\ (task[t].pc = "sp_enter" /\ process = None)
                    => /\ task'[t].pc = "done" /\ task'[t].res = "ok"
                       /\ task[t].nwritten = 0
                       /\ UNCHANGED <<handles, procs, lock, waiters, lastMultiPV>>]_vars

\* A stop() has killed a process and ended, and a later stop() has found no
\* process handle and ended
C11_Witness ==
    \E t \in Tasks :
        /\ task[t].op = "stop" /\ task[t].pc = "sp_killed"
        /\ process = task[t].waitp
        /\ ~procs[process].alive /\ procs[process].wedged
Queued == {waiters[i] : i \in DOMAIN waiters}

\* The step in which the call of t writes its first command
FirstWrite(t) == task[t].nwritten = 0 /\ task'[t].nwritten > 0

\* C12: callers join the lock's queue at its end and leave it at its head,
\* and a call of analyze_position, is_ready or new_game writes its first
\* command only from the head of the queue (or with the queue empty), when
\* every other such call that has asked for the lock before it has ended: the
\* calls still running have written nothing and either have not asked yet or
\* stay queued behind it.
C12_ServedInArrivalOrder ==
    [][/\ \/ waiters' = waiters
          \/ waiters # <<>> /\ waiters' = Tail(waiters)
          \/ \E u \in Tasks \ Queued : waiters' = Append(waiters, u)
       /\ \A t \in Tasks :
             (task[t].op \in ClientOps /\ FirstWrite(t)) =>
                /\ waiters = <<>> \/ Head(waiters) = t
                /\ \A u \in Tasks \ {t} :
                      (task[u].op \in ClientOps /\ Running(u)) =>
                         /\ task[u].nwritten = 0
                         /\ task[u].pc \in EntryPcs \/ u \in Queued \ {t}]_vars

\* Two callers are queued on the lock, in the order they asked for it
C12_Witness ==
    /\ Len(waiters) >= 2
    /\ \A i \in DOMAIN waiters :
          /\ task[waiters[i]].pc \in LockWaitPcs
          /\ task[waiters[i]].nwritten = 0
\* The analysis a finished run of _parse_analysis returned
Returned == parse.pc = "done"

analysis == parse.result[1]

\* C13: in every analysis the parser returns, the ranks of the N candidates
\* are 1..N in list order: unique, without gaps, whatever MultiPV indices
\* were dropped.
C13_RanksContiguous ==
    Returned =>
        \A i \in 1..Len(analysis.candidates) : analysis.candidates[i].rank = i

\* C14: in every analysis the parser returns, the evaluation (centipawns and
\* WDL) is the score of the candidate of rank 1 when there are candidates,
\* and it is the neutral value (0, 333/334/333) exactly when there are none.
C14_EvaluationFromRankOne ==
    Returned =>
        IF Len(analysis.candidates) = 0
        THEN /\ analysis.evaluation_cp = 0
             /\ analysis.evaluation_wdl = NeutralWDL
        ELSE /\ \E i \in 1..Len(analysis.candidates) :
                   /\ analysis.candidates[i].rank = 1
                   /\ analysis.evaluation_cp = analysis.candidates[i].score_cp
                   /\ analysis.evaluation_wdl = analysis.candidates[i].score_wdl
             /\ ~(/\ analysis.evaluation_cp = 0
                  /\ analysis.evaluation_wdl = NeutralWDL)

\* The positions in info_lines of the lines carrying MultiPV index idx
Carrying(idx) ==
    {n \in DOMAIN parse.lines :
        ~Skipped(parse.lines[n]) /\ parse.lines[n].mpv = {idx}}

\* Those of them whose variation starts with a move that parses
Moving(idx) == {n \in Carrying(idx) : HasMove(parse.lines[n])}

Latest(ns) == CHOOSE n \in ns : \A m \in ns : m <= n

\* The candidates of the returned analysis for MultiPV index idx
For(idx) ==
    {i \in DOMAIN analysis.candidates :
        analysis.candidates[i].multipv_index = idx}

\* Candidate c has the move, score, depth, nodes and variation of line ln
SameContent(c, ln) ==
    /\ ln.pv # <<>>
    /\ c.move = ln.pv[1]
    /\ c.score_cp = score_of(ln)
    /\ c.depth = OrZero(ln.depth)
    /\ c.nodes = OrZero(ln.nodes)
    /\ c.pv = ln.pv

\* C15 as stated: when an index is carried by more than one line, the
\* returned analysis has exactly one candidate for it, with the content of
\* the latest line carrying the index.
C15_LatestLineSurvives ==
    Returned =>
        \A idx \in {1, 2} :
            Cardinality(Carrying(idx)) > 1 =>
                /\ Cardinality(For(idx)) = 1
                /\ \A i \in For(idx) :
                      SameContent(analysis.candidates[i],
                                  parse.lines[Latest(Carrying(idx))])

\* C15 amended: when an index is carried by more than one line, the returned
\* analysis has at most one candidate for it; it has one exactly when some
\* line carrying the index has a variation whose first move parses, and its
\* content is that of the latest such line.
C15_LatestMoveLineSurvives ==
    Returned =>
        \A idx \in {1, 2} :
            Cardinality(Carrying(idx)) > 1 =>
                /\ Cardinality(For(idx)) = (IF Moving(idx) = {} THEN 0 ELSE 1)
                /\ \A i \in For(idx) :
                      SameContent(analysis.candidates[i],
                                  parse.lines[Latest(Moving(idx))])

\* Two lines carry index 1, both with a move, the moves differ, and the
\* analysis is returned
C15_Witness ==
    /\ Returned
    /\ Moving(1) = {1, 2}
    /\ parse.lines[1].pv[1] # parse.lines[2].pv[1]
    /\ score_of(parse.lines[1]) # score_of(parse.lines[2])
    /\ For(1) # {}

\* The first n moves of pv parse and are each legal after the ones before
LegalUpTo(pv, n) ==
    \A i \in 1..n :
        pv[i] \in from_uci /\ pv[i] \in legal_moves(SubSeq(pv, 1, i - 1))

\* The 0-based position of the first illegal or malformed move of pv, and
\* the length of pv when it has none
FirstBad(pv) ==
    CHOOSE k \in 0..Len(pv) :
        LegalUpTo(pv, k) /\ (k < Len(pv) => ~LegalUpTo(pv, k + 1))

\* C16: the coordinate-notation variation and the human-notation variation
\* of every returned candidate both have the length of the legal prefix of
\* the variation of the line the candidate comes from.
C16_BothVariationsTruncated ==
    Returned =>
        \A i \in DOMAIN analysis.candidates :
            LET c == analysis.candidates[i]
                ln == parse.lines[Latest(Moving(c.multipv_index))]
            IN  /\ Len(c.pv) = FirstBad(ln.pv)
                /\ Len(c.pv_san) = FirstBad(ln.pv)

\* C17: whenever no candidate parses from the lines, the analysis returned
\* has no candidates, zero telemetry (nodes, time, nps, depth, selective
\* depth) and the neutral evaluation.
C17_EmptyAnalysisIsZero ==
    (Returned /\ Len(analysis.candidates) = 0) =>
        /\ analysis.total_nodes = 0 /\ analysis.time_ms = 0
        /\ analysis.nps = 0
        /\ analysis.depth = 0 /\ analysis.seldepth = 0
        /\ analysis.evaluation_cp = 0
        /\ analysis.evaluation_wdl = NeutralWDL

\* The greatest of vals, 0 when there is none
FieldMax(vals) ==
    IF vals = {} THEN 0 ELSE CHOOSE v \in vals : \A w \in vals : w <= v

\* The values field f takes on the lines handed to the parser
Observed(f) == UNION {parse.lines[n][f] : n \in DOMAIN parse.lines}

\* C18: every telemetry field of the returned analysis is the maximum of
\* that field over all the lines handed to the parser, 0 when no line has
\* it, whether or not a line carries a MultiPV index or yields a candidate.
C18_TelemetryIsMaxOverAllLines ==
    Returned =>
        /\ analysis.total_nodes = FieldMax(Observed("nodes"))
        /\ analysis.time_ms = FieldMax(Observed("time"))
        /\ analysis.nps = FieldMax(Observed("nps"))
        /\ analysis.depth = FieldMax(Observed("depth"))
        /\ analysis.seldepth = FieldMax(Observed("seldepth"))

\* The line the returned candidate i comes from
Origin_line(i) ==
    parse.lines[Latest(Moving(analysis.candidates[i].multipv_index))]

\* The returned candidates whose line carries a mate score
Mates == {i \in DOMAIN analysis.candidates : Origin_line(i).mate # {}}

mate_in(i) == Val(Origin_line(i).mate)

\* C20: a candidate whose line carries mate distance m has the score
\* 10000 - |m| when m > 0 and -10000 + |m| otherwise, whatever centipawn
\* score the line also carries; of two winning mates the shorter has the
\* strictly higher score, of two losing mates the strictly lower one.
C20_MateToCentipawns ==
    Returned =>
        /\ \A i \in Mates :
              analysis.candidates[i].score_cp =
                  IF mate_in(i) > 0 THEN 10000 - Abs(mate_in(i))
                  ELSE Abs(mate_in(i)) - 10000
        /\ \A i, j \in Mates :
              /\ (/\ mate_in(i) > 0 /\ mate_in(j) > 0
                  /\ Abs(mate_in(i)) < Abs(mate_in(j)))
                    => analysis.candidates[i].score_cp
                          > analysis.candidates[j].score_cp
              /\ (/\ mate_in(i) < 0 /\ mate_in(j) < 0
                  /\ Abs(mate_in(i)) < Abs(mate_in(j)))
                    => analysis.candidates[i].score_cp
                          < analysis.candidates[j].score_cp

\* Two winning mates of different distance are returned, one of them from a
\* line that also carries a centipawn score
C20_Witness ==
    /\ Returned
    /\ \E i, j \in Mates :
          /\ mate_in(i) > 0 /\ mate_in(j) > 0 /\ mate_in(i) < mate_in(j)
          /\ Origin_line(i).cp # {}
          /\ analysis.candidates[i].score_cp # Val(Origin_line(i).cp)

\* C19: the go command carries exactly one limit: the depth given, whatever
\* else is given; with only a node budget, a depth that is 10 plus the number
\* of whole 100000s in the budget, raised to 15 and cut to 30; and depth 20
\* with no budget at all.
C19_GoCarriesOneLimit ==
    go.pc = "built" =>
        /\ Len(go.go_cmd) = 1
        /\ go.depth # {} =>
              go.go_cmd[1] = [limit |-> "depth", value |-> Val(go.depth)]
        /\ (go.depth = {} /\ go.time_ms = {} /\ go.nodes # {}) =>
              /\ go.go_cmd[1].limit = "depth"
              /\ go.go_cmd[1].value \in 15..30
              /\ \E q \in (0 - 1)..10000 :
                    /\ q * 100000 <= Val(go.nodes)
                    /\ Val(go.nodes) < (q + 1) * 100000
                    /\ go.go_cmd[1].value =
                          (IF 10 + q < 15 THEN 15
                           ELSE IF 10 + q > 30 THEN 30 ELSE 10 + q)
        /\ (go.depth = {} /\ go.time_ms = {} /\ go.nodes = {}) =>
              go.go_cmd[1] = [limit |-> "depth", value |-> 20]

\* A go command built from a node budget alone, neither raised nor cut
C19_Witness ==
    /\ go.pc = "built"
    /\ go.depth = {} /\ go.time_ms = {} /\ go.nodes = {1234567}
    /\ go.go_cmd = <<[limit |-> "depth", value |-> 22]>>

\* C21: for every integer score, _estimate_wdl gives three non-negative
\* integers that sum to 1000, the third being 1000 less the other two.
C21_WdlSumsTo1000 ==
    wdl.pc # "args" =>
        /\ wdl.pc = "done"
        /\ \A i \in 1..3 : wdl.result[1][i] \in Nat
        /\ wdl.result[1][1] + wdl.result[1][2] + wdl.result[1][3] = 1000
        /\ wdl.result[1][3] = 1000 - wdl.result[1][1] - wdl.result[1][2]

\* The commands a start() call has written since it spawned its process
\* (a restart writes "quit" to the old process before that)
Handshake(tk) ==
    IF tk.sent # <<>> /\ tk.sent[1].cmd = "quit" THEN Tail(tk.sent) ELSE tk.sent

\* The step takes a line of kind k off the stdout of some process
Reads(k) ==
    \E p \in DOMAIN procs :
        /\ procs[p].out # <<>>
        /\ Head(procs[p].out).kind = k
        /\ procs'[p].out = Tail(procs[p].out)

\* C22: start() writes "uci" first, no setoption before it has read "uciok",
\* every configured setoption, in order, before "isready", and it returns
\* only in a step that reads "readyok" after "isready" was written.
C22_HandshakeOrder ==
    [][\A t \in Tasks :
          task[t].op = "start" =>
              LET h == Handshake(task'[t])
                  opts == to_uci_options(Config)
              IN  /\ h # <<>> => h[1].cmd = "uci"
                  /\ \A i \in DOMAIN h :
                        h[i].cmd = "setoption" => task'[t].uciokFrom # None
                  /\ \A i \in DOMAIN h :
                        h[i].cmd = "isready" =>
                            /\ i = Len(opts) + 2
                            /\ \A j \in DOMAIN opts :
                                  /\ h[j + 1].cmd = "setoption"
                                  /\ h[j + 1].name = opts[j]
                  /\ (Ends(t) /\ task'[t].res = "ok") =>
                        /\ task[t].sent # <<>>
                        /\ task[t].sent[Len(task[t].sent)].cmd = "isready"
                        /\ Reads("readyok")]_vars

\* A restarting start() has written every option and "isready" to the
\* process it spawned and waits for "readyok"
C22_Witness ==
    \E t \in Tasks :
        /\ task[t].op = "start" /\ task[t].pc = "st_readyok"
        /\ task[t].sent[1].cmd = "quit"
        /\ Len(Handshake(task[t])) = Len(to_uci_options(Config)) + 2

\* The subprocesses spawned by the adapter that are alive
Alive == {p \in DOMAIN procs : procs[p].alive}

\* C23: under any interleaving of start() and stop() calls, at most one
\* subprocess spawned by the adapter is alive at any time.
C23_AtMostOneAlive == Cardinality(Alive) <= 1

\* C24: under any interleaving of start(), stop(), analyze_position, is_ready
\* and new_game, a true ready flag means that the process handle and both
\* stream handles are set.
C24_ReadyImpliesHandles ==
    is_ready => (process # None /\ reader # None /\ writer # None)

\* The analyze_position call of task t is in flight: its go command is
\* written, its bestmove line not yet read
Searching(t) == task[t].op = "analyze_position" /\ task[t].pc = "an_read"

\* The step is one in which the running call of task u writes a command
Writes(u) ==
    /\ Running(u) /\ task'[u].op = task[u].op
    /\ task'[u].nwritten > task[u].nwritten

\* C25: while an analyze_position call is in flight, no other call of the
\* adapter, start() and stop() included, writes a command to the engine or
\* clears the stream handles.
C25_SearchUndisturbed ==
    [][\A t \in Tasks :
          Searching(t) =>
              /\ \A u \in Tasks \ {t} : ~Writes(u)
              /\ reader # None => reader' # None
              /\ writer # None => writer' # None]_vars

\* The step is the one in which the analyze_position call of task t gets
\* the lock (at once, or when woken) and runs on from there
TakesLock(t) ==
    /\ task[t].op = "analyze_position"
    /\ \/ task[t].pc = "an_enter" /\ lock_free
       \/ task[t].pc = "an_lock"
    /\ task'[t] # task[t]

\* C26: an analyze_position call that gets the lock while the ready flag is
\* false ends in that step with an error, writes no command, leaves the
\* handles and the ready flag as they are and leaves the lock free.
C26_NotReadyRaises ==
    [][\A t \in Tasks :
          (TakesLock(t) /\ ~is_ready) =>
              /\ Ends(t) /\ task'[t].res = "raised"
              /\ ~Writes(t)
              /\ procs' = procs /\ lastMultiPV' = lastMultiPV
              /\ UNCHANGED handles
              /\ lock' = None]_vars

\* An analyze_position call has failed on an adapter that was never started
C26_Witness ==
    \E t \in Tasks :
        /\ task[t].op = "analyze_position"
        /\ task[t].pc = "done" /\ task[t].res = "raised"
        /\ ~is_ready /\ process = None
        /\ nstarts = 0

\* C27: when an analyze_position, is_ready or new_game call that has written
\* to the engine ends, in whatever way, and the engine is still alive, no
\* line is left unread on the engine's stdout for a later call to take.
C27_NothingLeftUnread ==
    [][\A t \in Tasks :
          (/\ task[t].op \in ClientOps /\ task[t].nwritten > 0
           /\ Ends(t)
           /\ reader # None /\ procs'[reader].alive)
              => procs'[reader].out = <<>>]_vars

====
